---- MODULE Spec2Model ----
(***************************************************************************)
(* kdist/runner.py: the training runner (Runner, KDRunner), its            *)
(* checkpoint / resume state, and the distillation loss helpers.           *)
(*                                                                         *)
(* Five specifications share the module:                                   *)
(*   Spec      the life of an experiment directory: construction of a      *)
(*             runner (fresh or resumed), run_loop step by step, external  *)
(*             kill and restart;                                           *)
(*   SpecRT    save_train_state / load_train_state on arbitrary runner     *)
(*             states;                                                     *)
(*   SpecLoss  hidden_loss applied to hidden-state lists of arbitrary      *)
(*             shapes;                                                     *)
(*   SpecMSE   hidden_loss applied to integer tensors;                     *)
(*   SpecKL    kl_div applied to integer logits.                           *)
(*                                                                         *)
(* Opaque values: model weights, optimizer, scaler and adapter states are  *)
(* naturals (for a live runner: the number of updates applied).  A hidden  *)
(* state is represented by its channel (last) dimension.                   *)
(***************************************************************************)
EXTENDS Integers, Sequences, FiniteSets, TLC

\* ------------------------------------------------------------------ bounds
MaxEpochs == 2
MaxSteps == 2
MaxValInterval == 2
MaxValBatches == 1
MaxRestarts == 1
MaxStudentLayers == 5
MaxCh == 3
MaxBlob == 1
MaxHidden == 13
MaxB == 1
MaxT == 2
MaxC == 2
MaxVal == 2
MaxLogit == 1

\* ------------------------------------------------------- program constants
\* depth of the teacher LAYER_MAPPING is written for (keys up to 12, indices up to 11)
TeacherDepth == 12

Tup(n, v) == [i \in 1..n |-> v]

Max2(a, b) == IF a >= b THEN a ELSE b

\* Python's xs[1:]
Slice1(xs) == SubSeq(xs, 2, Len(xs))

\* ----------------------------------------------------------- LAYER_MAPPING
LAYER_MAPPING_short ==
    [k \in {2, 3, 4, 6, 12} |->
        CASE k = 2 -> <<5, 11>>
          [] k = 3 -> <<3, 7, 11>>
          [] k = 4 -> <<2, 5, 8>>
          [] k = 6 -> <<1, 3, 5, 7, 9, 11>>
          [] k = 12 -> <<0, 1, 2, 3, 4, 5, 6, 7, 8, 9, 10, 11>>]

LAYER_MAPPING ==
    [k \in {2, 3, 4, 6, 12} |->
        CASE k = 2 -> <<5, 11>>
          [] k = 3 -> <<3, 7, 11>>
          [] k = 4 -> <<2, 5, 8, 11>>
          [] k = 6 -> <<1, 3, 5, 7, 9, 11>>
          [] k = 12 -> <<0, 1, 2, 3, 4, 5, 6, 7, 8, 9, 10, 11>>]

\* ------------------------------------------------------------- hidden_loss
\* t - s on two tensors that agree on every dimension but the last:
\* torch broadcasts a last dimension of 1, and raises otherwise.
Broadcastable(a, b) == a = b \/ a = 1 \/ b = 1

\* hidden_loss on the channel dimensions of the hidden states.  err is the
\* exception raised ("none": a loss value is returned), key the number of
\* supervised student layers, t_idx the teacher indices looked up, t_h / s_h
\* the paired channel dimensions.
HLResult(err, key, t_idx, t_h, s_h) ==
    [err |-> err, key |-> key, t_idx |-> t_idx, t_h |-> t_h, s_h |-> s_h]

hidden_loss_interp(t_hidden, s_hidden, include_embed) ==
    LET s_h == IF include_embed THEN s_hidden ELSE Slice1(s_hidden)
        t_h0 == IF include_embed THEN t_hidden ELSE Slice1(t_hidden)
        key == Len(s_h)
        idx == IF key \in DOMAIN LAYER_MAPPING THEN LAYER_MAPPING[key]
               ELSE [i \in 1..key |-> (i * Len(t_h0)) \div (key + 1)]
    IN  HLResult("none", key, idx, [i \in 1..key |-> t_h0[1]], s_h)

hidden_loss(t_hidden, s_hidden, include_embed) ==
    LET s_h == IF include_embed THEN s_hidden ELSE Slice1(s_hidden)
        t_h0 == IF include_embed THEN t_hidden ELSE Slice1(t_hidden)
        key == Len(s_h)
    IN  IF key \notin DOMAIN LAYER_MAPPING
        THEN HLResult("KeyError", key, <<>>, <<>>, s_h)
        ELSE LET idx == LAYER_MAPPING[key] IN
             IF \E i \in 1..Len(idx) : idx[i] + 1 > Len(t_h0)
             THEN HLResult("IndexError", key, idx, <<>>, s_h)
             ELSE LET t_h == [i \in 1..Len(idx) |-> t_h0[idx[i] + 1]] IN
                  IF Len(t_h) # Len(s_h) \/ t_h[1] # s_h[1]
                  THEN HLResult("AssertionError", key, idx, t_h, s_h)
                  ELSE IF \/ \E i \in 1..key : ~Broadcastable(t_h[i], s_h[i])
                          \/ \E i \in 1..key :
                                Max2(t_h[i], s_h[i]) # Max2(t_h[1], s_h[1])
                       THEN HLResult("RuntimeError", key, idx, t_h, s_h)
                       ELSE HLResult("none", key, idx, t_h, s_h)

\* --------------------------------------------------------- training state
Runner == "Runner"
KDRunner == "KDRunner"

\* a runner right after lines 38-45 (and 227 for KDRunner): freshly built
\* model, optimizer, scaler and adapters, counters at 0
FreshRunner ==
    [model |-> 0, teacher |-> 0, optim |-> 0, scaler |-> 0, adapters |-> 0,
     step_id |-> 0, epoch_id |-> 0, total_steps |-> 0, start_epoch |-> 0]

\* the keys of the dict torch.save writes, in the order load_train_state
\* reads them
StateKeys(cls) ==
    IF cls = KDRunner
    THEN <<"optim", "scaler", "step_id", "epoch_id", "total_steps", "adapters">>
    ELSE <<"optim", "scaler", "step_id", "epoch_id", "total_steps">>

Range(f) == {f[i] : i \in DOMAIN f}

\* the modules whose parameters are in the optimizer's parameter groups
\* (create_optim, lines 179-191 and 290-293)
create_optim(cls) ==
    IF cls = KDRunner THEN {"model", "adapters"} ELSE {"model"}

\* len(optim.param_groups): one group for model.parameters(), one more
\* from add_param_group (line 292)
ParamGroups(cls) == Cardinality(create_optim(cls))

NoData ==
    [optim |-> 0, scaler |-> 0, step_id |-> 0, epoch_id |-> 0,
     total_steps |-> 0, adapters |-> 0]

\* a file: kind "missing" (no such file), "corrupt" (torch.load raises) or
\* "dict" (a pickled dict holding the keys `keys`; `groups` is the number
\* of parameter groups of the optimizer state under "optim")
MissingFile == [kind |-> "missing", keys |-> {}, groups |-> 0, data |-> NoData]
CorruptFile == [kind |-> "corrupt", keys |-> {}, groups |-> 0, data |-> NoData]

save_train_state_swapped(cls, r) ==
    [kind |-> "dict",
     keys |-> Range(StateKeys(cls)),
     groups |-> ParamGroups(cls),
     data |-> [optim |-> r.optim, scaler |-> r.scaler, step_id |-> r.epoch_id,
               epoch_id |-> r.step_id, total_steps |-> r.total_steps,
               adapters |-> IF cls = KDRunner THEN r.adapters ELSE 0]]

\* torch.save of the dict of lines 197-203 (Runner) or 269-276 (KDRunner)
save_train_state(cls, r) ==
    [kind |-> "dict",
     keys |-> Range(StateKeys(cls)),
     groups |-> ParamGroups(cls),
     data |-> [optim |-> r.optim, scaler |-> r.scaler, step_id |-> r.step_id,
               epoch_id |-> r.epoch_id, total_steps |-> r.total_steps,
               adapters |-> IF cls = KDRunner THEN r.adapters ELSE 0]]

\* the assignments of load_train_state from position i on: each statement
\* reads one key and assigns one attribute; a missing key raises KeyError,
\* optim.load_state_dict raises ValueError on a state with another number of
\* parameter groups, and either leaves the earlier assignments in place
RECURSIVE LoadFrom(_, _, _, _, _)
LoadFrom(cls, order, i, f, r) ==
    IF i > Len(order) THEN [ok |-> TRUE, runner |-> r]
    ELSE IF order[i] \notin f.keys THEN [ok |-> FALSE, runner |-> r]
    ELSE IF order[i] = "optim" /\ f.groups # ParamGroups(cls)
         THEN [ok |-> FALSE, runner |-> r]
    ELSE LoadFrom(cls, order, i + 1, f,
                  [r EXCEPT ![order[i]] = f.data[order[i]]])

load_train_state_no_epoch(cls, f, r) ==
    IF f.kind # "dict" THEN [ok |-> FALSE, runner |-> r]
    ELSE LET res == LoadFrom(cls, StateKeys(cls), 1, f, r)
         IN  [res EXCEPT !.runner.epoch_id = r.epoch_id]

\* torch.load raises on a missing or unreadable file, before any assignment
load_train_state(cls, f, r) ==
    IF f.kind # "dict" THEN [ok |-> FALSE, runner |-> r]
    ELSE LoadFrom(cls, StateKeys(cls), 1, f, r)

\* the model weight files of the experiment directory
MissingWeights == [kind |-> "missing", ver |-> 0]
CorruptWeights == [kind |-> "corrupt", ver |-> 0]
save_pretrained(m) == [kind |-> "ok", ver |-> m]

\* ------------------------------------------------------------------ state
VARIABLES
    env,      \* Env: the configuration, the same at every start of the command
    disk,     \* the experiment directory: trainstate.pt, weights, optim.pkl
    runner,   \* the attributes of the live runner object
    pc,       \* position of the process
    epoch,    \* run_loop's local `epoch`
    step,     \* run_loop's local `step`
    err,      \* the exception that ended the process ("none": none)
    metric,   \* what the last run_val returned
    hist,     \* history of the run (observation only)
    rt,       \* SpecRT: the runner at save_train_state, the loader before
    hl        \* SpecLoss: the inputs and the result of hidden_loss

vars == <<env, disk, runner, pc, epoch, step, err, metric, hist, rt, hl>>

\* channel dimensions standing for Env.hidden_d and teacher.hidden_d
StudentD == 1
TeacherD == MaxCh

\* the optimizers create_optim knows (lines 183-190)
OptimNames == {"adamw", "adam", "sgd"}

\* the depths of the student model explored: one LAYER_MAPPING supports and
\* one it does not
SampleStudentLayers == {2, 5}

\* Env as set_env leaves it, with the two sizes the loops read:
\* steps_per_epoch is len(trainset) // batch_size, val_batches is
\* len(valset) // batch_size; student_layers is the depth of the student
\* model and num_layers is Env.num_layers, the number of adapters.
\* val_interval_type is the type of Env.val_interval: "str" when
\* --val-interval was given (line 348, type=str), "int" otherwise.
\* exp_name is "None" when --exp-name was not given.  from_pretrained is what
\* the model's method does: load the weights into the model it is called on
\* ("in_place"), or build and return another model ("classmethod").
EnvAll ==
    [cls : {Runner, KDRunner},
     epochs : 0..MaxEpochs,
     steps_per_epoch : 0..MaxSteps,
     val_interval : 0..MaxValInterval,
     val_interval_type : {"int", "str"},
     has_val : BOOLEAN,
     val_batches : 0..MaxValBatches,
     use_fp16 : BOOLEAN,
     optim : {"adamw", "rmsprop"},
     exp_name : {"exp", "None"},
     from_pretrained : {"in_place", "classmethod"},
     student_layers : {1} \cup SampleStudentLayers,
     num_layers : 0..(MaxStudentLayers + 1)]

\* the configurations explored
EnvSet ==
    {e \in EnvAll :
        /\ (~e.has_val => e.val_batches = 0)
        /\ (e.cls = Runner => e.student_layers = 1 /\ e.num_layers = 1)
        /\ (e.cls = KDRunner =>
              /\ e.student_layers \in SampleStudentLayers
              /\ e.num_layers \in (e.student_layers - 1)..(e.student_layers + 1))
        /\ (e.val_interval_type = "str" => e.val_interval > 0)}

\* a runner some earlier run of the program left a checkpoint of
SampleRunner ==
    [FreshRunner EXCEPT !.optim = 3, !.scaler = 1, !.step_id = 1,
                        !.epoch_id = 1, !.total_steps = 3, !.adapters = 3]

\* the trainstate.pt a runner of class cls wrote of it
SampleFile(cls) == save_train_state(cls, SampleRunner)

OtherClass(cls) == IF cls = Runner THEN KDRunner ELSE Runner

EmptyDir ==
    [trainstate |-> MissingFile, weights |-> MissingWeights,
     optim_pkl |-> MissingFile]

\* the directories a first construction may find: empty, or one on which the
\* resume fails (unreadable trainstate.pt, a trainstate.pt written by a
\* runner of the other class, weights that from_pretrained cannot load)
InitDisks(cls) ==
    {EmptyDir}
    \cup {[EmptyDir EXCEPT !.trainstate = CorruptFile,
                           !.weights = save_pretrained(3)]}
    \cup {[EmptyDir EXCEPT !.trainstate = SampleFile(cls), !.weights = w] :
            w \in {MissingWeights, CorruptWeights}}
    \cup {[EmptyDir EXCEPT !.trainstate = SampleFile(OtherClass(cls)),
                           !.weights = save_pretrained(3)]}

FreshHist ==
    [restarts |-> 0, fresh_dir |-> TRUE, by_ckpt |-> FALSE,
     resumed |-> "none", loaded |-> NoData, loaded_by_ckpt |-> FALSE,
     first |-> [set |-> FALSE, epoch |-> 0, step |-> 0],
     n_train |-> 0, n_due |-> 0, n_ckpt |-> 0, epochs_done |-> 0,
     init |-> FreshRunner]

NoRT ==
    [set |-> FALSE, cls |-> Runner, saved |-> FreshRunner,
     before |-> FreshRunner]
NoHL == [t_hidden |-> <<>>, s_hidden |-> <<>>, include_embed |-> FALSE,
         called |-> FALSE, out |-> HLResult("none", 0, <<>>, <<>>, <<>>)]

Init ==
    /\ env \in EnvSet
    /\ disk \in IF env.exp_name = "None" THEN {EmptyDir} ELSE InitDisks(env.cls)
    /\ runner = FreshRunner
    /\ pc = "start"
    /\ epoch = 0
    /\ step = 0
    /\ err = "none"
    /\ metric = "none"
    /\ hist = [FreshHist EXCEPT !.fresh_dir = (disk = EmptyDir)]
    /\ rt = NoRT
    /\ hl = NoHL

\* ------------------------------------------------------- Runner.__init__
\* lines 67-73: load_train_state, then model.from_pretrained, inside one
\* try / bare except.  What the try block assigned before the exception
\* stays assigned.  from_pretrained raises on weights it cannot read; what
\* it read reaches self.model only when it loads in place, for its return
\* value is dropped (line 70).
try_resume(e, d, r) ==
    LET ld == load_train_state(e.cls, d.trainstate, r) IN
    IF ~ld.ok THEN [ok |-> FALSE, runner |-> ld.runner]
    ELSE IF d.weights.kind # "ok" THEN [ok |-> FALSE, runner |-> ld.runner]
    ELSE [ok |-> TRUE,
          runner |-> IF e.from_pretrained = "in_place"
                     THEN [ld.runner EXCEPT !.model = d.weights.ver]
                     ELSE ld.runner]

\* Runner.__init__ / KDRunner.__init__, lines 34-74 and 226-230: create_optim
\* raises NotImplementedError on an unknown Env.optim; then the resume
RunnerInit ==
    /\ pc = "start"
    /\ IF env.optim \notin OptimNames
       THEN /\ pc' = "crashed"
            /\ err' = "NotImplementedError"
            /\ UNCHANGED <<runner, hist>>
       ELSE LET res == try_resume(env, disk, FreshRunner) IN
            /\ runner' = res.runner
            /\ hist' = [hist EXCEPT
                          !.resumed = IF res.ok THEN "ok" ELSE "failed",
                          !.loaded = disk.trainstate.data,
                          !.loaded_by_ckpt = hist.by_ckpt]
            /\ pc' = "init_save_model"
            /\ err' = err
    /\ UNCHANGED <<env, disk, epoch, step, metric, rt, hl>>

\* line 75
InitSaveModel ==
    /\ pc = "init_save_model"
    /\ disk' = [disk EXCEPT !.weights = save_pretrained(runner.model)]
    /\ pc' = "init_save_state"
    /\ UNCHANGED <<env, runner, epoch, step, err, metric, hist, rt, hl>>

\* lines 76-79, and the start of run_loop's range (line 83)
InitSaveState ==
    /\ pc = "init_save_state"
    /\ disk' = [disk EXCEPT !.optim_pkl = save_train_state(env.cls, runner)]
    /\ LET r == [runner EXCEPT !.start_epoch = runner.epoch_id] IN
       /\ runner' = r
       /\ epoch' = r.start_epoch
       /\ hist' = [hist EXCEPT !.init = r]
    /\ pc' = "for_epoch"
    /\ UNCHANGED <<env, step, err, metric, rt, hl>>

\* ---------------------------------------------------------- train_forward
\* backward_pass_and_step (lines 122-129) and the counters (144-145)
StepCounters_no_total(r, s) == [r EXCEPT !.step_id = s]

StepCounters_next(r, s) == [r EXCEPT !.step_id = s + 1, !.total_steps = @ + 1]

StepCounters(r, s) == [r EXCEPT !.step_id = s, !.total_steps = @ + 1]

\* the modules whose parameters receive a gradient from loss.backward(): the
\* teacher's forward pass runs under torch.no_grad() (lines 240-241)
WithGrad(cls) ==
    IF cls = KDRunner THEN {"model", "adapters"} ELSE {"model"}

Updated_with_teacher(cls) == {"model", "adapters", "teacher"}

\* optim.step() changes the parameters of its groups that have a gradient
Updated(cls) == create_optim(cls) \cap WithGrad(cls)

Stepped(e, r, s) ==
    LET u == Updated(e.cls) IN
    StepCounters([r EXCEPT !.model = IF "model" \in u THEN @ + 1 ELSE @,
                           !.teacher = IF "teacher" \in u THEN @ + 1 ELSE @,
                           !.optim = @ + 1,
                           !.scaler = IF e.use_fp16 THEN @ + 1 ELSE @,
                           !.adapters = IF "adapters" \in u THEN @ + 1 ELSE @],
                 s)

\* the hidden states KDRunner.train_forward hands to hidden_loss: the
\* teacher's TeacherDepth + 1 states, and the student's embedding output
\* followed by its layers' outputs, each through its adapter (lines 241-252)
TeacherHidden == Tup(TeacherDepth + 1, TeacherD)
StudentHidden(e) == <<StudentD>> \o Tup(e.student_layers, TeacherD)

\* Runner.train_forward (132-146) and KDRunner.train_forward (233-262) at
\* `step`: the exception raised, or the runner after the optimizer step
train_forward(e, r, s) ==
    IF e.cls = Runner THEN [err |-> "none", runner |-> Stepped(e, r, s)]
    ELSE IF e.student_layers > e.num_layers
         THEN [err |-> "IndexError", runner |-> r]
    ELSE LET out == hidden_loss(TeacherHidden, StudentHidden(e), FALSE) IN
         IF out.err # "none" THEN [err |-> out.err, runner |-> r]
         ELSE [err |-> "none", runner |-> Stepped(e, r, s)]

\* ---------------------------------------------------------------- run_val
\* lines 148-176: 0 without a validation split; with one, forward_pass is
\* handed the batch as its model, and calling the batch raises TypeError;
\* with a split too small for one batch, numpy's mean of no losses is nan
run_val(e) ==
    IF ~e.has_val THEN [err |-> "none", metric |-> "0"]
    ELSE IF e.val_batches = 0 THEN [err |-> "none", metric |-> "nan"]
    ELSE [err |-> "TypeError", metric |-> "none"]

\* --------------------------------------------------------------- run_loop
end_epoch_absolute == env.epochs

\* line 82, and the bound of the range of line 83
end_epoch == runner.start_epoch + env.epochs

\* line 83-90: the next epoch of the range begins
EpochBegin ==
    /\ pc = "for_epoch"
    /\ epoch < end_epoch
    /\ runner' = [runner EXCEPT !.epoch_id = epoch]
    /\ step' = runner.step_id
    /\ pc' = "for_step"
    /\ UNCHANGED <<env, disk, epoch, err, metric, hist, rt, hl>>

\* line 83: the range is exhausted, run_loop returns
LoopExit_final_save ==
    /\ pc = "for_epoch"
    /\ epoch >= end_epoch
    /\ pc' = "done"
    /\ disk' = [disk EXCEPT !.trainstate = save_train_state(env.cls, runner)]
    /\ UNCHANGED <<env, runner, epoch, step, err, metric, hist, rt, hl>>

\* line 83: the range of epochs is exhausted and run_loop returns
LoopExit ==
    /\ pc = "for_epoch"
    /\ epoch >= end_epoch
    /\ pc' = "done"
    /\ UNCHANGED <<env, disk, runner, epoch, step, err, metric, hist, rt, hl>>

\* line 95, step % self.val_interval: int % str raises TypeError, a zero
\* interval ZeroDivisionError
val_due(e, s) ==
    IF e.val_interval_type = "str" THEN [err |-> "TypeError", due |-> FALSE]
    ELSE IF e.val_interval = 0 THEN [err |-> "ZeroDivisionError", due |-> FALSE]
    ELSE [err |-> "none", due |-> (s % e.val_interval = 0)]

\* lines 91-95: one training step, then the test of the validation cadence
TrainStep ==
    /\ pc = "for_step"
    /\ step < env.steps_per_epoch
    /\ LET res == train_forward(env, runner, step)
           h == [hist EXCEPT
                   !.first = IF hist.first.set THEN @
                             ELSE [set |-> TRUE, epoch |-> epoch, step |-> step]]
       IN  IF res.err # "none"
           THEN /\ pc' = "crashed"
                /\ err' = res.err
                /\ hist' = h
                /\ UNCHANGED <<runner, step>>
           ELSE LET vd == val_due(env, step) IN
                /\ runner' = res.runner
                /\ err' = vd.err
                /\ IF vd.err # "none"
                   THEN /\ pc' = "crashed"
                        /\ step' = step
                        /\ hist' = [h EXCEPT !.n_train = @ + 1]
                   ELSE IF vd.due
                   THEN /\ pc' = "run_val"
                        /\ step' = step
                        /\ hist' = [h EXCEPT !.n_train = @ + 1, !.n_due = @ + 1]
                   ELSE /\ pc' = "for_step"
                        /\ step' = step + 1
                        /\ hist' = [h EXCEPT !.n_train = @ + 1]
    /\ UNCHANGED <<env, disk, epoch, metric, rt, hl>>

\* line 96
RunVal ==
    /\ pc = "run_val"
    /\ LET res == run_val(env) IN
       IF res.err # "none"
       THEN /\ pc' = "crashed"
            /\ err' = res.err
            /\ metric' = metric
       ELSE /\ pc' = "save_model"
            /\ err' = err
            /\ metric' = res.metric
    /\ UNCHANGED <<env, disk, runner, epoch, step, hist, rt, hl>>

\* set_checkpoint, line 219
SaveModel ==
    /\ pc = "save_model"
    /\ disk' = [disk EXCEPT !.weights = save_pretrained(runner.model)]
    /\ pc' = "save_state"
    /\ UNCHANGED <<env, runner, epoch, step, err, metric, hist, rt, hl>>

\* set_checkpoint, line 220, and the step of the inner loop
SaveState ==
    /\ pc = "save_state"
    /\ disk' = [disk EXCEPT !.trainstate = save_train_state(env.cls, runner)]
    /\ hist' = [hist EXCEPT !.n_ckpt = @ + 1, !.by_ckpt = TRUE]
    /\ step' = step + 1
    /\ pc' = "for_step"
    /\ UNCHANGED <<env, runner, epoch, err, metric, rt, hl>>

\* line 100: the inner range is exhausted
EpochEnd ==
    /\ pc = "for_step"
    /\ step >= env.steps_per_epoch
    /\ runner' = [runner EXCEPT !.step_id = 0]
    /\ epoch' = epoch + 1
    /\ hist' = [hist EXCEPT !.epochs_done = @ + 1]
    /\ pc' = "for_epoch"
    /\ UNCHANGED <<env, disk, step, err, metric, rt, hl>>

\* the directories the next start of the command may use.  With --exp-name
\* it is the same one.  Without, it is named time.ctime(time.time()) (lines
\* 375-378), the local time to the second: a new, empty directory, or, when
\* the clock shows the same second again (a restart within the second, or
\* after the clock was set back), the directory of the run before
NextDirs(e, d) == IF e.exp_name = "None" THEN {d, EmptyDir} ELSE {d}

\* the process ends (killed from outside, or after run_loop returned or
\* raised) and the same command is started again: only the directory stays
Kill ==
    /\ pc # "start"
    /\ hist.restarts < MaxRestarts
    /\ pc' = "start"
    /\ runner' = FreshRunner
    /\ epoch' = 0
    /\ step' = 0
    /\ err' = "none"
    /\ metric' = "none"
    /\ disk' \in NextDirs(env, disk)
    /\ hist' = [FreshHist EXCEPT
                  !.restarts = hist.restarts + 1,
                  !.fresh_dir = hist.fresh_dir,
                  !.by_ckpt = (hist.by_ckpt /\ disk' = disk)]
    /\ UNCHANGED <<env, rt, hl>>

Next ==
    \/ RunnerInit
    \/ InitSaveModel
    \/ InitSaveState
    \/ EpochBegin
    \/ LoopExit
    \/ TrainStep
    \/ RunVal
    \/ SaveModel
    \/ SaveState
    \/ EpochEnd
    \/ Kill

Spec == Init /\ [][Next]_vars

\* ------------------------------------------------------------------ SpecRT
\* save_train_state and load_train_state on runners of one class holding
\* arbitrary states
RTRunners(cls) ==
    {r \in [model : {0}, teacher : {0}, optim : 0..MaxBlob, scaler : 0..MaxBlob,
            adapters : 0..MaxBlob, step_id : 0..MaxBlob, epoch_id : 0..MaxBlob,
            total_steps : 0..MaxBlob, start_epoch : {0}] :
        cls = Runner => r.adapters = 0}

RTEnv(cls) ==
    [cls |-> cls, epochs |-> 1, steps_per_epoch |-> 0, val_interval |-> 1,
     val_interval_type |-> "int", has_val |-> FALSE, val_batches |-> 0,
     use_fp16 |-> FALSE, optim |-> "adamw", exp_name |-> "exp",
     from_pretrained |-> "in_place", student_layers |-> 1, num_layers |-> 1]

InitRT ==
    /\ env \in {RTEnv(cls) : cls \in {Runner, KDRunner}}
    /\ disk = EmptyDir
    /\ runner \in RTRunners(env.cls)
    /\ pc = "rt_ready"
    /\ epoch = 0
    /\ step = 0
    /\ err = "none"
    /\ metric = "none"
    /\ hist = FreshHist
    /\ rt = NoRT
    /\ hl = NoHL

\* save_train_state(f), lines 193-203 and 265-276
RT_Save ==
    /\ pc = "rt_ready"
    /\ disk' = [disk EXCEPT !.trainstate = save_train_state(env.cls, runner)]
    /\ rt' = [rt EXCEPT !.set = TRUE, !.cls = env.cls, !.saved = runner]
    /\ pc' = "rt_saved"
    /\ UNCHANGED <<env, runner, epoch, step, err, metric, hist, hl>>

\* load_train_state(f), lines 205-214 and 278-288, on the file just saved,
\* by a runner of the same class that holds any state `before`
RT_Load ==
    /\ pc = "rt_saved"
    /\ \E before \in RTRunners(env.cls) :
         LET res == load_train_state(env.cls, disk.trainstate, before) IN
         /\ runner' = res.runner
         /\ err' = IF res.ok THEN "none" ELSE "load failed"
         /\ rt' = [rt EXCEPT !.before = before]
    /\ pc' = "rt_loaded"
    /\ UNCHANGED <<env, disk, epoch, step, metric, hist, hl>>

NextRT ==
    \/ RT_Save
    \/ RT_Load

SpecRT == InitRT /\ [][NextRT]_vars

\* ---------------------------------------------------------------- SpecLoss
\* hidden_loss on a teacher whose hidden states all have td channels and a
\* student whose hidden states have sd channels, but for the one at
\* position odd, which has od
HLStudent(n, sd, odd, od) == [i \in 1..n |-> IF i = odd THEN od ELSE sd]

HLInputs ==
    {[t_hidden |-> Tup(nt, td), s_hidden |-> HLStudent(ns, sd, odd, od),
      include_embed |-> ie, called |-> FALSE,
      out |-> HLResult("none", 0, <<>>, <<>>, <<>>)] :
        nt \in 1..MaxHidden, ns \in 0..MaxHidden, td \in 1..MaxCh,
        sd \in 1..MaxCh, odd \in 1..MaxHidden, od \in 1..MaxCh,
        ie \in BOOLEAN}

InitLoss ==
    /\ env = RTEnv(KDRunner)
    /\ disk = EmptyDir
    /\ runner = FreshRunner
    /\ pc = "hidden_loss"
    /\ epoch = 0
    /\ step = 0
    /\ err = "none"
    /\ metric = "none"
    /\ hist = FreshHist
    /\ rt = NoRT
    /\ hl \in HLInputs

\* hidden_loss(t_hidden, s_hidden, attn_mask, include_embed), lines 305-321
HL_Call ==
    /\ pc = "hidden_loss"
    /\ ~hl.called
    /\ hl' = [hl EXCEPT !.called = TRUE,
                        !.out = hidden_loss(hl.t_hidden, hl.s_hidden,
                                            hl.include_embed)]
    /\ UNCHANGED <<env, disk, runner, pc, epoch, step, err, metric, hist, rt>>

NextLoss == HL_Call

SpecLoss == InitLoss /\ [][NextLoss]_vars

\* ----------------------------------------------------------------- SpecMSE
\* hidden_loss on values.  A tensor of shape [B, T, C] is a sequence (batch)
\* of sequences (positions) of sequences (channels) of integers; attn_mask is
\* a sequence of sequences over {0, 1}.  The loss is the exact quotient
\* num / den.
RECURSIVE SumTo(_, _)
SumTo(f, n) == IF n = 0 THEN 0 ELSE f[n] + SumTo(f, n - 1)

Channels(x) == Len(x[1][1])

\* x[b][t][c] with a last dimension of 1 broadcast
El(x, b, t, c) == x[b][t][IF Channels(x) = 1 THEN 1 ELSE c]

\* ((t - s) * (t - s) * attn_mask[:, :, None]).sum() for one pair, line 319-320
MaskedSqErr(t, s, attn_mask) ==
    LET B == Len(attn_mask)
        T == Len(attn_mask[1])
        C == Max2(Channels(t), Channels(s))
        d(b, p, c) == El(t, b, p, c) - El(s, b, p, c)
        row(b, p) == SumTo([c \in 1..C |-> d(b, p, c) * d(b, p, c) * attn_mask[b][p]], C)
        bat(b) == SumTo([p \in 1..T |-> row(b, p)], T)
    IN  SumTo([b \in 1..B |-> bat(b)], B)

ShapesOf(hidden) == [i \in 1..Len(hidden) |-> Channels(hidden[i])]

hidden_loss_value_mean(t_hidden, s_hidden, attn_mask, include_embed) ==
    LET out == hidden_loss(ShapesOf(t_hidden), ShapesOf(s_hidden), include_embed)
        s_h == IF include_embed THEN s_hidden ELSE Slice1(s_hidden)
        t_h0 == IF include_embed THEN t_hidden ELSE Slice1(t_hidden)
    IN  IF out.err # "none" THEN [err |-> out.err, num |-> 0, den |-> 1]
        ELSE [err |-> "none",
              num |-> SumTo([i \in 1..out.key |->
                               MaskedSqErr(t_h0[out.t_idx[i] + 1], s_h[i],
                                           attn_mask)], out.key),
              den |-> out.key * Len(attn_mask) * Len(attn_mask[1])
                      * Channels(t_hidden[1])]

\* hidden_loss, lines 305-321: the exception of the shape checks, or the sum
\* over the stacked pairs divided by B * T * t_hidden[0].shape[-1]
hidden_loss_value(t_hidden, s_hidden, attn_mask, include_embed) ==
    LET out == hidden_loss(ShapesOf(t_hidden), ShapesOf(s_hidden), include_embed)
        s_h == IF include_embed THEN s_hidden ELSE Slice1(s_hidden)
        t_h0 == IF include_embed THEN t_hidden ELSE Slice1(t_hidden)
    IN  IF out.err # "none" THEN [err |-> out.err, num |-> 0, den |-> 1]
        ELSE [err |-> "none",
              num |-> SumTo([i \in 1..out.key |->
                               MaskedSqErr(t_h0[out.t_idx[i] + 1], s_h[i],
                                           attn_mask)], out.key),
              den |-> Len(attn_mask) * Len(attn_mask[1]) * Channels(t_hidden[1])]

\* the inputs: every teacher hidden state is the constant tensor of tv, every
\* supervised student hidden state is the constant tensor of sv but for
\* sv2 at position (ob, op); k student layers are supervised
ConstTensor(B, T, C, v) == [b \in 1..B |-> [p \in 1..T |-> [c \in 1..C |-> v]]]

OddTensor(B, T, C, v, ob, op, v2) ==
    [b \in 1..B |-> [p \in 1..T |->
        [c \in 1..C |-> IF b = ob /\ p = op THEN v2 ELSE v]]]

MSEInput(k, B, T, C, tv, sv, ob, op, sv2, m) ==
    [k |-> k,
     t |-> ConstTensor(B, T, C, tv),
     s |-> OddTensor(B, T, C, sv, ob, op, sv2),
     attn_mask |-> m, called |-> FALSE,
     out |-> [err |-> "none", num |-> 0, den |-> 1]]

InitMSE ==
    /\ env = RTEnv(KDRunner)
    /\ disk = EmptyDir
    /\ runner = FreshRunner
    /\ pc = "hidden_loss_value"
    /\ epoch = 0
    /\ step = 0
    /\ err = "none"
    /\ metric = "none"
    /\ hist = FreshHist
    /\ rt = NoRT
    /\ \E k \in DOMAIN LAYER_MAPPING, B \in 1..MaxB, T \in 1..MaxT, C \in 1..MaxC,
          tv \in 0..MaxVal, sv \in 0..MaxVal, sv2 \in 0..MaxVal :
         \E ob \in 1..B, op \in 1..T, m \in [1..B -> [1..T -> {0, 1}]] :
            hl = MSEInput(k, B, T, C, tv, sv, ob, op, sv2, m)

\* hidden_loss on TeacherDepth + 1 teacher states and k + 1 student states
\* (the embedding output first), include_embed = False as train_forward calls it
MSE_Call ==
    /\ pc = "hidden_loss_value"
    /\ ~hl.called
    /\ hl' = [hl EXCEPT !.called = TRUE,
                        !.out = hidden_loss_value(Tup(TeacherDepth + 1, hl.t),
                                                  Tup(hl.k + 1, hl.s),
                                                  hl.attn_mask, FALSE)]
    /\ UNCHANGED <<env, disk, runner, pc, epoch, step, err, metric, hist, rt>>

NextMSE == MSE_Call

SpecMSE == InitMSE /\ [][NextMSE]_vars

\* ------------------------------------------------------------------ SpecKL
\* kl_div on integer logits of shape [B, T, V].  The softmax is not
\* computed: the divergence of two rows is 0 when their logits differ by a
\* constant (softmax is shift invariant) and positive otherwise, and the
\* result is its class: "zero", "pos", or "nan" / "inf" of a division by 0.
MaskLogits(x, attn_mask) ==
    [b \in 1..Len(x) |-> [p \in 1..Len(x[b]) |->
        [v \in 1..Len(x[b][p]) |-> x[b][p][v] * attn_mask[b][p]]]]

\* (p.exp() * (p - q)).sum(dim=-1) at one position, line 302
RowKL(pr, qr) ==
    IF \A v \in 1..Len(pr) : pr[v] - qr[v] = pr[1] - qr[1] THEN "zero" ELSE "pos"

MaskSum(attn_mask) ==
    SumTo([b \in 1..Len(attn_mask) |->
             SumTo(attn_mask[b], Len(attn_mask[b]))], Len(attn_mask))

Quotient(num, scale) ==
    IF scale = 0 THEN (IF num = "zero" THEN "nan" ELSE "inf") ELSE num

\* kl_div, lines 298-302
kl_div(p, q, attn_mask) ==
    LET P == MaskLogits(p, attn_mask)
        Q == MaskLogits(q, attn_mask)
        mean == IF \A b \in 1..Len(P) : \A t \in 1..Len(P[b]) :
                      RowKL(P[b][t], Q[b][t]) = "zero"
                THEN "zero" ELSE "pos"
    IN  Quotient(mean, MaskSum(attn_mask))

\* the inputs: the teacher logits are the row pr at every position, the
\* student logits the same but for the row qr at position (ob, op)
RowTensor(B, T, r) == [b \in 1..B |-> [p \in 1..T |-> r]]

OddRowTensor(B, T, r, ob, op, r2) ==
    [b \in 1..B |-> [p \in 1..T |-> IF b = ob /\ p = op THEN r2 ELSE r]]

InitKL ==
    /\ env = RTEnv(KDRunner)
    /\ disk = EmptyDir
    /\ runner = FreshRunner
    /\ pc = "kl_div"
    /\ epoch = 0
    /\ step = 0
    /\ err = "none"
    /\ metric = "none"
    /\ hist = FreshHist
    /\ rt = NoRT
    /\ \E B \in 1..MaxB, T \in 1..MaxT,
          pr \in [1..MaxC -> 0..MaxLogit], qr \in [1..MaxC -> 0..MaxLogit] :
         \E ob \in 1..B, op \in 1..T, m \in [1..B -> [1..T -> {0, 1}]] :
            hl = [p |-> RowTensor(B, T, pr),
                  q |-> OddRowTensor(B, T, pr, ob, op, qr),
                  attn_mask |-> m, called |-> FALSE, out |-> "none"]

KL_Call ==
    /\ pc = "kl_div"
    /\ ~hl.called
    /\ hl' = [hl EXCEPT !.called = TRUE,
                        !.out = kl_div(hl.p, hl.q, hl.attn_mask)]
    /\ UNCHANGED <<env, disk, runner, pc, epoch, step, err, metric, hist, rt>>

NextKL == KL_Call

SpecKL == InitKL /\ [][NextKL]_vars

\* ================================================================== claims
Constructed ==
    pc \in {"for_epoch", "for_step", "run_val", "save_model", "save_state",
            "done", "crashed"}

InLoopBody == pc \in {"for_step", "run_val", "save_model", "save_state"}

\* C1 (Spec): whenever the resume of __init__ fails (trainstate.pt missing,
\* unreadable or lacking a key, or from_pretrained failing after
\* load_train_state succeeded), the runner ends construction with
\* step_id = 0, epoch_id = 0, total_steps = 0 and start_epoch = 0.
C1_FallbackIsFresh ==
    (Constructed /\ hist.resumed = "failed") =>
        /\ hist.init.step_id = 0
        /\ hist.init.epoch_id = 0
        /\ hist.init.total_steps = 0
        /\ hist.init.start_epoch = 0

\* C2 (Spec): when the resume succeeds, construction leaves step_id, epoch_id
\* and total_steps exactly as trainstate.pt held them and start_epoch at the
\* saved epoch_id; and when that trainstate.pt was written by set_checkpoint,
\* the first step run_loop executes is the saved step_id of the saved epoch.
C2_ResumeExact ==
    (Constructed /\ hist.resumed = "ok") =>
        /\ hist.init.step_id = hist.loaded.step_id
        /\ hist.init.epoch_id = hist.loaded.epoch_id
        /\ hist.init.total_steps = hist.loaded.total_steps
        /\ hist.init.start_epoch = hist.loaded.epoch_id
        /\ (hist.loaded_by_ckpt /\ hist.first.set) =>
              /\ hist.first.epoch = hist.loaded.epoch_id
              /\ hist.first.step = hist.loaded.step_id

C2_Witness ==
    /\ Constructed
    /\ hist.resumed = "ok"
    /\ hist.loaded_by_ckpt
    /\ hist.first.set
    /\ hist.first.step >= 1
    /\ hist.first.epoch >= 1
    /\ hist.loaded.total_steps >= 2

\* C3 (Spec): every training step with step % val_interval = 0 is followed
\* by run_val and a completed set_checkpoint, with or without a validation
\* split, and no other step is: outside run_val / set_checkpoint, the
\* checkpoints written equal the steps that were due one.
C3_CheckpointCadence ==
    (Constructed /\ pc \notin {"run_val", "save_model", "save_state"}) =>
        hist.n_ckpt = hist.n_due

\* C4 (SpecRT): save_train_state(f) then load_train_state(f) on a runner of
\* the same class leaves the loader with the saver's step_id, epoch_id,
\* total_steps, optimizer, scaler (and adapter) state, whatever it held.
C4_RoundTrip ==
    pc = "rt_loaded" =>
        /\ err = "none"
        /\ runner.step_id = rt.saved.step_id
        /\ runner.epoch_id = rt.saved.epoch_id
        /\ runner.total_steps = rt.saved.total_steps
        /\ runner.optim = rt.saved.optim
        /\ runner.scaler = rt.saved.scaler
        /\ (env.cls = KDRunner => runner.adapters = rt.saved.adapters)

C4_Witness ==
    /\ pc = "rt_loaded"
    /\ env.cls = KDRunner
    /\ rt.saved.step_id # rt.saved.epoch_id
    /\ rt.before.step_id # rt.saved.step_id
    /\ rt.before.epoch_id # rt.saved.epoch_id
    /\ rt.before.total_steps # rt.saved.total_steps
    /\ rt.before.optim # rt.saved.optim
    /\ rt.before.scaler # rt.saved.scaler
    /\ rt.before.adapters # rt.saved.adapters

AtEpochStart == pc = "for_epoch" /\ epoch < end_epoch

\* C5 as claimed (Spec, in a directory that started empty): step_id is 0 at
\* the start of every epoch of run_loop, and total_steps has grown by one
\* per training step.
C5_StepZeroAtEveryEpoch ==
    (hist.fresh_dir /\ Constructed) =>
        /\ AtEpochStart => runner.step_id = 0
        /\ runner.total_steps = hist.init.total_steps + hist.n_train

\* C5 amended (Spec): step_id is 0 at the start of every epoch but the first
\* one run_loop runs, where it is the step_id construction left (the saved
\* one after a resume); total_steps has grown by exactly one per training
\* step since construction.
C5_StepZeroAfterFirstEpoch ==
    Constructed =>
        /\ (AtEpochStart /\ epoch > runner.start_epoch) => runner.step_id = 0
        /\ (AtEpochStart /\ epoch = runner.start_epoch) =>
              runner.step_id = hist.init.step_id
        /\ (hist.resumed = "ok" => hist.init.step_id = hist.loaded.step_id)
        /\ runner.total_steps = hist.init.total_steps + hist.n_train

C5_Witness ==
    /\ AtEpochStart
    /\ epoch > runner.start_epoch
    /\ hist.resumed = "ok"
    /\ hist.init.step_id >= 1
    /\ hist.n_train >= 1

\* C6 (Spec): run_loop runs the epochs start_epoch .. start_epoch+epochs-1
\* in order, each up to step steps_per_epoch - 1, and ends by leaving the
\* loop after exactly Env.epochs epochs (the only other end being the fatal
\* configuration errors of the distillation step).
C6_EpochRange ==
    /\ InLoopBody =>
          /\ runner.epoch_id = epoch
          /\ epoch = runner.start_epoch + hist.epochs_done
          /\ hist.epochs_done < env.epochs
          /\ step <= env.steps_per_epoch
    /\ pc = "done" => hist.epochs_done = env.epochs
    /\ pc = "crashed" =>
          err \in {"KeyError", "IndexError", "AssertionError", "RuntimeError"}

\* C7 as claimed (Spec, in a directory that started empty): whatever kills
\* and resumes happened, run_loop returns at the final epoch of an
\* uninterrupted fresh run, Env.epochs - 1.
C7_AbsoluteTarget ==
    (hist.fresh_dir /\ pc = "done" /\ env.epochs >= 1) =>
        runner.epoch_id = env.epochs - 1

\* C7 amended (Spec): run_loop (Env.epochs >= 1) returns at epoch
\* start_epoch + Env.epochs - 1, start_epoch being the epoch_id construction
\* left: the saved epoch_id after a resume, 0 when nothing was loaded.
C7_RelativeTarget ==
    (pc = "done" /\ env.epochs >= 1) =>
        /\ runner.epoch_id = runner.start_epoch + env.epochs - 1
        /\ runner.start_epoch = hist.init.epoch_id
        /\ (hist.resumed = "ok" => runner.start_epoch = hist.loaded.epoch_id)
        /\ (hist.loaded = NoData => runner.start_epoch = 0)

C7_Witness ==
    /\ pc = "done"
    /\ env.epochs >= 1
    /\ hist.fresh_dir
    /\ hist.resumed = "ok"
    /\ hist.restarts >= 1
    /\ runner.start_epoch >= 1
    /\ runner.epoch_id > env.epochs - 1

StrictlyIncreasing(xs) == \A i \in 1..(Len(xs) - 1) : xs[i] < xs[i + 1]

\* C8 (SpecLoss): LAYER_MAPPING[k], for each k of {2,3,4,6,12}, has exactly k
\* entries, all within 0..11 and strictly increasing; so has every list of
\* teacher indices hidden_loss looks up.
C8_LayerMapping ==
    /\ DOMAIN LAYER_MAPPING = {2, 3, 4, 6, 12}
    /\ \A k \in DOMAIN LAYER_MAPPING :
          /\ Len(LAYER_MAPPING[k]) = k
          /\ \A i \in 1..Len(LAYER_MAPPING[k]) :
                LAYER_MAPPING[k][i] \in 0..(TeacherDepth - 1)
          /\ StrictlyIncreasing(LAYER_MAPPING[k])
    /\ (hl.called /\ hl.out.err # "KeyError") =>
          /\ Len(hl.out.t_idx) = hl.out.key
          /\ \A i \in 1..Len(hl.out.t_idx) :
                hl.out.t_idx[i] \in 0..(TeacherDepth - 1)
          /\ StrictlyIncreasing(hl.out.t_idx)

C8_Witness ==
    /\ hl.called
    /\ hl.out.err = "none"
    /\ hl.out.key = 4
    /\ hl.out.t_idx = <<2, 5, 8, 11>>

Supported(n) == n \in {2, 3, 4, 6, 12}

\* C9 (Spec): when the supervised student layers (len(s_hidden) - 1) are not
\* 2, 3, 4, 6 or 12 in number, the KDRunner.train_forward step that calls
\* hidden_loss ends in KeyError, and the runner is as it was before the
\* step: no optimizer step, step_id and total_steps not advanced.
C9_UnsupportedFatal ==
    (/\ env.cls = KDRunner
     /\ env.student_layers <= env.num_layers
     /\ ~Supported(Len(StudentHidden(env)) - 1)
     /\ hist.first.set) =>
        /\ pc = "crashed"
        /\ err = "KeyError"
        /\ hist.n_train = 0
        /\ runner.optim = hist.init.optim
        /\ runner.scaler = hist.init.scaler
        /\ runner.model = hist.init.model
        /\ runner.adapters = hist.init.adapters
        /\ runner.total_steps = hist.init.total_steps
        /\ runner.step_id = IF hist.epochs_done = 0 THEN hist.init.step_id ELSE 0

C9_Witness ==
    /\ env.cls = KDRunner
    /\ env.student_layers = 5
    /\ hist.first.set
    /\ pc = "crashed"
    /\ err = "KeyError"
    /\ hist.resumed = "failed"

Mismatched(out) ==
    \E i \in 1..Len(out.t_h) : i <= Len(out.s_h) /\ out.t_h[i] # out.s_h[i]

\* C10 (SpecLoss): when some mapped teacher hidden state and its student
\* hidden state differ in their channel dimension, hidden_loss raises and
\* returns no loss value.
C10_MismatchFatal ==
    (hl.called /\ Mismatched(hl.out)) => hl.out.err # "none"

\* the masked squared error of one pair counted over the valid positions
\* only, as a quotient with PairDen
PairNum(t, s, attn_mask) ==
    LET B == Len(attn_mask)
        T == Len(attn_mask[1])
        C == Channels(t)
        sq(b, p) == IF attn_mask[b][p] = 0 THEN 0
                    ELSE SumTo([c \in 1..C |->
                                  (t[b][p][c] - s[b][p][c]) * (t[b][p][c] - s[b][p][c])], C)
    IN  SumTo([b \in 1..B |-> SumTo([p \in 1..T |-> sq(b, p)], T)], B)

PairDen(t, attn_mask) == Len(attn_mask) * Len(attn_mask[1]) * Channels(t)

\* C11 (SpecMSE): over k identical supervised pairs (k in {2,3,4,6,12}) the
\* loss is k times the loss of one pair, the squared error summed over the
\* positions whose mask is 1 and divided by B * T * hidden_dim; positions
\* whose mask is 0 contribute nothing.
C11_LinearInLayers ==
    hl.called =>
        /\ hl.out.err = "none"
        /\ hl.out.den > 0
        /\ hl.out.num * PairDen(hl.t, hl.attn_mask)
             = hl.k * PairNum(hl.t, hl.s, hl.attn_mask) * hl.out.den

C11_Witness ==
    /\ hl.called
    /\ hl.k = 3
    /\ hl.out.num > 0
    /\ \E b \in 1..Len(hl.attn_mask) : \E p \in 1..Len(hl.attn_mask[1]) :
          /\ hl.attn_mask[b][p] = 0
          /\ hl.t[b][p][1] # hl.s[b][p][1]

IdenticalOnValid ==
    \A b \in 1..Len(hl.attn_mask) : \A p \in 1..Len(hl.attn_mask[b]) :
        hl.attn_mask[b][p] = 1 => hl.p[b][p] = hl.q[b][p]

\* C12 (SpecKL): kl_div is a non-negative number for every input, every mask
\* included (a mask with no valid token too), and it is 0 whenever the teacher
\* and student logits are identical on all positions whose mask is 1.
C12_NonNegative ==
    hl.called =>
        /\ hl.out \in {"zero", "pos"}
        /\ IdenticalOnValid => hl.out = "zero"

\* C13 (Spec): the teacher is frozen.  No train_forward step changes the
\* teacher's parameters: in every state they are the parameters the teacher
\* was constructed with, while the student, the adapters and the optimizer
\* move.
C13_TeacherFrozen == runner.teacher = FreshRunner.teacher

C13_Witness ==
    /\ env.cls = KDRunner
    /\ hist.n_train >= 2
    /\ runner.model = hist.init.model + 2
    /\ runner.adapters = hist.init.adapters + 2
    /\ runner.optim = hist.init.optim + 2

\* step % val_interval is a number
IntervalUsable == env.val_interval_type = "int" /\ env.val_interval > 0

\* the last step of an epoch with step % val_interval = 0, and the first
\* step the final epoch of this process runs
LastCkptStep ==
    (env.steps_per_epoch - 1) - ((env.steps_per_epoch - 1) % env.val_interval)

FinalEpochFirstStep == IF env.epochs = 1 THEN hist.init.step_id ELSE 0

FinalEpochCheckpointed ==
    /\ pc = "done"
    /\ IntervalUsable
    /\ env.epochs >= 1
    /\ env.steps_per_epoch >= 1
    /\ FinalEpochFirstStep <= LastCkptStep

\* C14 (Spec): no final save.  When run_loop has returned, trainstate.pt and
\* the weights are those written at the last step of the final epoch with
\* step % val_interval = 0; the steps trained after it and the reset of
\* step_id to 0 are not on disk, and a resume starts from that checkpoint's
\* epoch_id and step_id.
C14_NoFinalSave ==
    FinalEpochCheckpointed =>
        LET d == disk.trainstate.data
            later == env.steps_per_epoch - 1 - LastCkptStep
            res == try_resume(env, disk, FreshRunner)
        IN  /\ disk.trainstate.kind = "dict"
            /\ d.epoch_id = end_epoch - 1
            /\ d.step_id = LastCkptStep
            /\ d.total_steps = runner.total_steps - later
            /\ d.optim = runner.optim - later
            /\ disk.weights = save_pretrained(runner.model - later)
            /\ runner.step_id = 0
            /\ res.ok
            /\ res.runner.epoch_id = end_epoch - 1
            /\ res.runner.step_id = LastCkptStep

C14_Witness ==
    /\ FinalEpochCheckpointed
    /\ env.epochs = 2
    /\ env.steps_per_epoch - 1 > LastCkptStep
    /\ runner.total_steps > disk.trainstate.data.total_steps
    /\ runner.epoch_id = disk.trainstate.data.epoch_id

\* C15 (Spec): run_val is a stub that always reports 0.  Without a
\* validation split, and with a split of at least one full batch, every call
\* (run_loop reaches it only with an integer val_interval) completes without
\* an error and the metric run_loop receives is 0.
C15_ValidationStub ==
    (IntervalUsable /\ (~env.has_val \/ env.val_batches >= 1)) =>
        /\ err # "TypeError"
        /\ pc \in {"save_model", "save_state"} => metric = "0"

\* C16 (Spec): no training position is executed twice across kill and
\* resume.  In a run started on an empty directory, every trainstate.pt
\* written satisfies total_steps = epoch_id * steps_per_epoch + step_id + 1.
C16_NoStepTwice ==
    (hist.fresh_dir /\ disk.trainstate.kind = "dict") =>
        disk.trainstate.data.total_steps
            = disk.trainstate.data.epoch_id * env.steps_per_epoch
              + disk.trainstate.data.step_id + 1

\* C17 (Spec): checkpoint consistency under an external kill.  In a run
\* started on an empty directory, at every moment the weights and
\* trainstate.pt of the directory were written for the same training step:
\* the weights are the model after as many updates as the saved optimizer
\* state has made.
C17_ConsistentPair ==
    (hist.fresh_dir /\ disk.trainstate.kind = "dict" /\ disk.weights.kind = "ok") =>
        disk.weights.ver = disk.trainstate.data.optim

\* C18 (Spec): every trainstate.pt written by run_loop records a step_id
\* that is a multiple of val_interval and an epoch_id of the writing run's
\* range start_epoch..start_epoch+epochs-1; so the first step a runner
\* executes after it resumed from such a file is the saved position, a step
\* with step % val_interval = 0, which validates and checkpoints.
C18_CheckpointPositions ==
    /\ (hist.by_ckpt /\ disk.trainstate.kind = "dict") =>
          disk.trainstate.data.step_id % env.val_interval = 0
    /\ hist.n_ckpt >= 1 =>
          /\ disk.trainstate.kind = "dict"
          /\ disk.trainstate.data.step_id < env.steps_per_epoch
          /\ disk.trainstate.data.epoch_id \in runner.start_epoch..(end_epoch - 1)
    /\ (hist.resumed = "ok" /\ hist.loaded_by_ckpt /\ hist.first.set) =>
          /\ hist.first.step = hist.loaded.step_id
          /\ hist.first.epoch = hist.loaded.epoch_id
          /\ hist.first.step % env.val_interval = 0
          /\ hist.n_train >= 1 => hist.n_due >= 1

C18_Witness ==
    /\ hist.resumed = "ok"
    /\ hist.loaded_by_ckpt
    /\ hist.first.set
    /\ env.val_interval = 2
    /\ env.steps_per_epoch = 2
    /\ hist.loaded.epoch_id = 1
    /\ hist.n_ckpt >= 1
    /\ pc = "for_step"
    /\ step = 1

====
